---- MODULE Spec2Model ----
(***************************************************************************)
(* skimage.measure.simple_metrics: mse, nrmse and psnr over two image      *)
(* arrays, with the helpers _assert_compatible and _as_floats.             *)
(*                                                                         *)
(* An array is a record [dtype, shape, data]; data is the flat (C order)   *)
(* sequence of its elements.  A float64 scalar is a record [k, n, d]:      *)
(*   k = "fin"  : the rational n/d (d > 0, lowest terms)                   *)
(*   k = "sqrt" : sign(n) * sqrt(|n|/d), what np.sqrt and a quotient of    *)
(*                one produce                                              *)
(*   k = "dB"   : 10 * log10(n/d), n/d > 0, what 10 * np.log10 produces    *)
(*   k = "nan", "inf", "ninf" : the IEEE specials                          *)
(* Array elements are "fin" or "nan".  All magnitudes in the model are far *)
(* below 2^53, so float64 represents them and their sums exactly; the      *)
(* rounding of float64 is not modelled.                                    *)
(***************************************************************************)
EXTENDS Integers, Sequences, FiniteSets, TLC

VARIABLES heap, dtype_range, outcome

vars == <<heap, dtype_range, outcome>>

\* The largest number of elements of an input array.
MaxLen == 2

(***************************************************************************)
(* float64 scalars                                                         *)
(***************************************************************************)
RECURSIVE GCD(_, _)
GCD(a, b) == IF b = 0 THEN a ELSE GCD(b, a % b)

Abs(n) == IF n < 0 THEN -n ELSE n

Sign(n) == IF n < 0 THEN -1 ELSE IF n = 0 THEN 0 ELSE 1

\* The scalar of kind k for the fraction n/d (d # 0), in lowest terms.
Norm(k, n, d) ==
    LET g == GCD(Abs(n), Abs(d))
        s == IF d < 0 THEN -1 ELSE 1
    IN  [k |-> k, n |-> (s * n) \div g, d |-> (s * d) \div g]

F(n) == [k |-> "fin", n |-> n, d |-> 1]

NaN == [k |-> "nan", n |-> 0, d |-> 1]

Inf == [k |-> "inf", n |-> 0, d |-> 1]

NInf == [k |-> "ninf", n |-> 0, d |-> 1]

\* IEEE comparison: every comparison with a NaN is false.
FloatEq(a, b) ==
    /\ a.k # "nan"
    /\ b.k # "nan"
    /\ a = b

\* a < b for "fin" operands; false when either is NaN.
FloatLess(a, b) ==
    /\ a.k = "fin"
    /\ b.k = "fin"
    /\ a.n * b.d < b.n * a.d

FAdd(a, b) ==
    IF a.k = "fin" /\ b.k = "fin"
    THEN Norm("fin", a.n * b.d + b.n * a.d, a.d * b.d)
    ELSE NaN

FSub(a, b) ==
    IF a.k = "fin" /\ b.k = "fin"
    THEN Norm("fin", a.n * b.d - b.n * a.d, a.d * b.d)
    ELSE NaN

FMul(a, b) ==
    IF a.k = "fin" /\ b.k = "fin"
    THEN Norm("fin", a.n * b.n, a.d * b.d)
    ELSE NaN

\* The square of a "fin" or "sqrt" scalar, as a non-negative fraction <<n, d>>.
SquareOf(a) ==
    IF a.k = "sqrt" THEN <<Abs(a.n), a.d>> ELSE <<a.n * a.n, a.d * a.d>>

\* np.sqrt of a scalar: NaN for NaN and for a negative operand.
Sqrt(a) ==
    CASE a.k = "fin" /\ a.n >= 0 -> [k |-> "sqrt", n |-> a.n, d |-> a.d]
      [] a.k = "inf" -> Inf
      [] OTHER -> NaN

\* a / b for float64 scalars a, b of kind "fin", "sqrt" or a special.  A
\* zero divisor is no error: x/0 is +-inf for x # 0 and NaN for x = 0.
FDiv(a, b) ==
    LET fa == a.k \in {"fin", "sqrt"}
        fb == b.k \in {"fin", "sqrt"}
    IN  CASE a.k = "nan" \/ b.k = "nan" -> NaN
          [] fa /\ fb /\ b.n = 0 ->
                IF a.n = 0 THEN NaN ELSE IF a.n > 0 THEN Inf ELSE NInf
          [] fa /\ fb /\ a.k = "fin" /\ b.k = "fin" ->
                Norm("fin", a.n * b.d, a.d * b.n)
          [] fa /\ fb ->
                LET qa == SquareOf(a)
                    qb == SquareOf(b)
                    q  == Norm("sqrt", qa[1] * qb[2], qa[2] * qb[1])
                IN  [q EXCEPT !.n = Sign(a.n) * Sign(b.n) * q.n]
          [] fa /\ b.k \in {"inf", "ninf"} -> F(0)
          [] a.k \in {"inf", "ninf"} /\ fb ->
                IF (a.k = "inf") = (b.n > 0) THEN Inf ELSE NInf
          [] OTHER -> NaN

\* 10 * np.log10(a): log10(0) is -inf, log10 of a negative number is NaN.
TenLog10(a) ==
    CASE a.k = "fin" /\ a.n > 0 ->
            IF a.n = a.d THEN F(0) ELSE [k |-> "dB", n |-> a.n, d |-> a.d]
      [] a.k = "fin" /\ a.n = 0 -> NInf
      [] a.k = "inf" -> Inf
      [] OTHER -> NaN

IsFinite(a) == a.k \in {"fin", "sqrt", "dB"}

(***************************************************************************)
(* Strings: a Python str is the sequence of its characters.                *)
(***************************************************************************)
UpperCase == <<"A", "B", "C", "D", "E", "F", "G", "H", "I", "J", "K", "L", "M",
               "N", "O", "P", "Q", "R", "S", "T", "U", "V", "W", "X", "Y", "Z">>

LowerCase == <<"a", "b", "c", "d", "e", "f", "g", "h", "i", "j", "k", "l", "m",
               "n", "o", "p", "q", "r", "s", "t", "u", "v", "w", "x", "y", "z">>

LowerChar(c) ==
    IF \E i \in DOMAIN UpperCase : UpperCase[i] = c
    THEN LowerCase[CHOOSE i \in DOMAIN UpperCase : UpperCase[i] = c]
    ELSE c

\* Mutant of lower: the string is compared as given.
lower_as_given(s) == s

\* str.lower()
lower(s) == [i \in DOMAIN s |-> LowerChar(s[i])]

(***************************************************************************)
(* numpy arrays                                                            *)
(***************************************************************************)
IntegerDtypes == {"uint8", "int8"}

\* The value an integer dtype stores for the mathematical result n of an
\* elementwise operation: fixed-width integers wrap around modulo 2^8.
Wrap(dtype, n) ==
    CASE dtype = "uint8" -> n % 256
      [] dtype = "int8" -> ((n + 128) % 256) - 128
      [] OTHER -> n

\* One element of X - Y, computed in the arrays' dtype.
ElemSub(dtype, a, b) ==
    IF dtype \in IntegerDtypes THEN F(Wrap(dtype, a.n - b.n)) ELSE FSub(a, b)

\* One element of X * Y (np.square(X) is X * X), computed in the arrays' dtype.
ElemMul(dtype, a, b) ==
    IF dtype \in IntegerDtypes THEN F(Wrap(dtype, a.n * b.n)) ELSE FMul(a, b)

\* Mutant of Subtract: the operands are added.
Subtract_added(X, Y) ==
    [X EXCEPT !.data = [i \in DOMAIN X.data |->
                            IF X.dtype \in IntegerDtypes
                            THEN F(Wrap(X.dtype, X.data[i].n + Y.data[i].n))
                            ELSE FAdd(X.data[i], Y.data[i])]]

\* X - Y for arrays of one dtype and shape.
Subtract(X, Y) ==
    [X EXCEPT !.data = [i \in DOMAIN X.data |->
                            ElemSub(X.dtype, X.data[i], Y.data[i])]]

\* X * Y for arrays of one dtype and shape.
Multiply(X, Y) ==
    [X EXCEPT !.data = [i \in DOMAIN X.data |->
                            ElemMul(X.dtype, X.data[i], Y.data[i])]]

RECURSIVE SumTo(_, _)
SumTo(data, i) == IF i = 0 THEN F(0) ELSE FAdd(SumTo(data, i - 1), data[i])

\* ndarray.mean(): the sum is accumulated in float64 whatever the dtype; the
\* mean of an empty array is 0/0 = NaN.
Mean(X) == FDiv(SumTo(X.data, Len(X.data)), F(Len(X.data)))

RECURSIVE MinTo(_, _)
MinTo(data, i) ==
    IF i = 1 THEN data[1]
    ELSE LET m == MinTo(data, i - 1)
         IN  CASE m.k = "nan" -> m
               [] data[i].k = "nan" -> data[i]
               [] FloatLess(data[i], m) -> data[i]
               [] OTHER -> m

RECURSIVE MaxTo(_, _)
MaxTo(data, i) ==
    IF i = 1 THEN data[1]
    ELSE LET m == MaxTo(data, i - 1)
         IN  CASE m.k = "nan" -> m
               [] data[i].k = "nan" -> data[i]
               [] FloatLess(m, data[i]) -> data[i]
               [] OTHER -> m

\* ndarray.min() and ndarray.max() of a non-empty array: a NaN element makes
\* the result NaN.  (Of an empty array they raise, see ZeroSize.)
Min(X) == MinTo(X.data, Len(X.data))

Max(X) == MaxTo(X.data, Len(X.data))

\* ndarray.astype(np.float64): a new array; uint8, int8, float32, float64 and
\* longdouble values of these magnitudes convert exactly.
astype_float64(X) == [X EXCEPT !.dtype = "float64"]

\* The first free object id of heap h.
NewId(h) == Cardinality(DOMAIN h) + 1

Alloc(h, A) == [i \in DOMAIN h \cup {NewId(h)} |-> IF i \in DOMAIN h THEN h[i] ELSE A]

(***************************************************************************)
(* What a call gives back: the heap it leaves, the helpers and array       *)
(* operations it ran, in order, and either the exception raised or the     *)
(* value returned.  dynamic_range is psnr's local of that name at the end  *)
(* of the call.                                                            *)
(***************************************************************************)
None == [given |-> FALSE, v |-> 0]

Some(v) == [given |-> TRUE, v |-> v]

Raise(h, ops, exc, msg) ==
    [h |-> h, ops |-> ops, raised |-> TRUE, exc |-> exc, msg |-> msg,
     value |-> NaN, dynamic_range |-> None]

Return(h, ops, v, dr) ==
    [h |-> h, ops |-> ops, raised |-> FALSE, exc |-> "", msg |-> "",
     value |-> v, dynamic_range |-> dr]

DtypeMsg == "Input images must have the same dtype."

ShapeMsg == "Input images must have the same dimensions."

NormTypeMsg == "Unsupported norm_type"

RangeMsg == "im_true has intensity values outside the range expected for its data type.  Please manually specify the dynamic_range"

ZeroSizeMin == "zero-size array to reduction operation minimum which has no identity"

ZeroSizeMax == "zero-size array to reduction operation maximum which has no identity"

\* _assert_compatible(X, Y): the message of the ValueError raised, "" if none.
_assert_compatible(X, Y) ==
    IF ~(X.dtype = Y.dtype) THEN DtypeMsg
    ELSE IF ~(X.shape = Y.shape) THEN ShapeMsg
    ELSE ""

\* Mutant of Promote: the conversion overwrites the caller's array.
Promote_in_place(h, X) ==
    IF h[X].dtype # "float64"
    THEN [h |-> [h EXCEPT ![X] = astype_float64(h[X])], ref |-> X]
    ELSE [h |-> h, ref |-> X]

\* Lines 20-21 (and 22-23): an array that is not float64 is converted into a
\* new object and the local name rebound to it; a float64 array is left as
\* it is.  X is a reference into heap h.
Promote(h, X) ==
    IF h[X].dtype # "float64"
    THEN [h |-> Alloc(h, astype_float64(h[X])), ref |-> NewId(h)]
    ELSE [h |-> h, ref |-> X]

\* Mutant of _as_floats: the promotion is left out.
_as_floats_skipped(h, X, Y) == [h |-> h, X |-> X, Y |-> Y]

_as_floats(h, X, Y) ==
    LET px == Promote(h, X)
        py == Promote(px.h, Y)
    IN  [h |-> py.h, X |-> px.ref, Y |-> py.ref]

\* Mutant of mse: the difference is averaged without being squared.
mse_unsquared(h, X, Y) ==
    LET msg == _assert_compatible(h[X], h[Y])
    IN  IF msg # ""
        THEN Raise(h, <<"_assert_compatible">>, "ValueError", msg)
        ELSE LET f == _as_floats(h, X, Y)
                 D == Subtract(f.h[f.X], f.h[f.Y])
             IN  Return(f.h,
                        <<"_assert_compatible", "_as_floats", "subtract",
                          "mean">>,
                        Mean(D), None)

mse(h, X, Y) ==
    LET msg == _assert_compatible(h[X], h[Y])
    IN  IF msg # ""
        THEN Raise(h, <<"_assert_compatible">>, "ValueError", msg)
        ELSE LET f == _as_floats(h, X, Y)
                 D == Subtract(f.h[f.X], f.h[f.Y])
             IN  Return(f.h,
                        <<"_assert_compatible", "_as_floats", "subtract",
                          "square", "mean">>,
                        Mean(Multiply(D, D)), None)

s_Euclidean == <<"E", "u", "c", "l", "i", "d", "e", "a", "n">>

s_euclidean == <<"e", "u", "c", "l", "i", "d", "e", "a", "n">>

s_min_max == <<"m", "i", "n", "-", "m", "a", "x">>

s_mean == <<"m", "e", "a", "n">>

\* Mutant of Denominator: min-max normalizes by the maximum alone.
Denominator_max_only(norm_type, im_true) ==
    CASE norm_type = s_euclidean ->
            [msg |-> "", ops |-> <<"multiply", "mean", "sqrt">>,
             denom |-> Sqrt(Mean(Multiply(im_true, im_true)))]
      [] norm_type = s_min_max ->
            IF Len(im_true.data) = 0
            THEN [msg |-> ZeroSizeMax, ops |-> <<"max">>, denom |-> NaN]
            ELSE [msg |-> "", ops |-> <<"max">>, denom |-> Max(im_true)]
      [] norm_type = s_mean ->
            [msg |-> "", ops |-> <<"mean">>, denom |-> Mean(im_true)]
      [] OTHER ->
            [msg |-> NormTypeMsg, ops |-> <<>>, denom |-> NaN]

\* The branch on the lower-cased norm_type: the denominator denom computed
\* from the promoted im_true, or the ValueError raised.
Denominator(norm_type, im_true) ==
    CASE norm_type = s_euclidean ->
            [msg |-> "", ops |-> <<"multiply", "mean", "sqrt">>,
             denom |-> Sqrt(Mean(Multiply(im_true, im_true)))]
      [] norm_type = s_min_max ->
            IF Len(im_true.data) = 0
            THEN [msg |-> ZeroSizeMax, ops |-> <<"max">>, denom |-> NaN]
            ELSE [msg |-> "", ops |-> <<"max", "min", "subtract">>,
                  denom |-> FSub(Max(im_true), Min(im_true))]
      [] norm_type = s_mean ->
            [msg |-> "", ops |-> <<"mean">>, denom |-> Mean(im_true)]
      [] OTHER ->
            [msg |-> NormTypeMsg, ops |-> <<>>, denom |-> NaN]

\* The caller left the argument out.
Omitted == [given |-> FALSE, v |-> <<>>]

\* nrmse(im_true, im_test, norm_type='Euclidean'); arg is Omitted when the
\* caller leaves norm_type out.
nrmse(h, im_true, im_test, arg) ==
    LET msg == _assert_compatible(h[im_true], h[im_test])
    IN  IF msg # ""
        THEN Raise(h, <<"_assert_compatible">>, "ValueError", msg)
        ELSE
        LET f == _as_floats(h, im_true, im_test)
            norm_type == lower(IF arg.given THEN arg.v ELSE s_Euclidean)
            dn == Denominator(norm_type, f.h[f.X])
            ops == <<"_assert_compatible", "_as_floats", "lower">> \o dn.ops
            m == mse(f.h, f.X, f.Y)
        IN  IF dn.msg # "" THEN Raise(f.h, ops, "ValueError", dn.msg)
            ELSE IF m.raised THEN [m EXCEPT !.ops = ops \o m.ops]
            ELSE Return(m.h, ops \o m.ops \o <<"sqrt", "divide">>,
                        FDiv(Sqrt(m.value), dn.denom), None)

\* Mutant of InferDynamicRange: dmax is chosen only for true_min > 0.
InferDynamicRange_positive(im_true) ==
    IF im_true.dtype \notin DOMAIN dtype_range
    THEN [exc |-> "KeyError", msg |-> im_true.dtype,
          ops |-> <<"dtype_range">>, dynamic_range |-> 0]
    ELSE IF Len(im_true.data) = 0
    THEN [exc |-> "ValueError", msg |-> ZeroSizeMin,
          ops |-> <<"dtype_range", "min">>, dynamic_range |-> 0]
    ELSE
    LET dmin == dtype_range[im_true.dtype][1]
        dmax == dtype_range[im_true.dtype][2]
        true_min == Min(im_true)
        true_max == Max(im_true)
        ops == <<"dtype_range", "min", "max">>
    IN  IF FloatLess(F(dmax), true_max) \/ FloatLess(true_min, F(dmin))
        THEN [exc |-> "ValueError", msg |-> RangeMsg, ops |-> ops,
              dynamic_range |-> 0]
        ELSE IF true_min.k = "fin" /\ true_min.n > 0
        THEN [exc |-> "", msg |-> "", ops |-> ops, dynamic_range |-> dmax]
        ELSE [exc |-> "", msg |-> "", ops |-> ops,
              dynamic_range |-> dmax - dmin]

\* Mutant of InferDynamicRange: only true_max is checked against the range.
InferDynamicRange_max_only(im_true) ==
    IF im_true.dtype \notin DOMAIN dtype_range
    THEN [exc |-> "KeyError", msg |-> im_true.dtype,
          ops |-> <<"dtype_range">>, dynamic_range |-> 0]
    ELSE IF Len(im_true.data) = 0
    THEN [exc |-> "ValueError", msg |-> ZeroSizeMin,
          ops |-> <<"dtype_range", "min">>, dynamic_range |-> 0]
    ELSE
    LET dmin == dtype_range[im_true.dtype][1]
        dmax == dtype_range[im_true.dtype][2]
        true_min == Min(im_true)
        true_max == Max(im_true)
        ops == <<"dtype_range", "min", "max">>
    IN  IF FloatLess(F(dmax), true_max)
        THEN [exc |-> "ValueError", msg |-> RangeMsg, ops |-> ops,
              dynamic_range |-> 0]
        ELSE IF true_min.k = "fin" /\ true_min.n >= 0
        THEN [exc |-> "", msg |-> "", ops |-> ops, dynamic_range |-> dmax]
        ELSE [exc |-> "", msg |-> "", ops |-> ops,
              dynamic_range |-> dmax - dmin]

\* Lines 115-125 of psnr: the dynamic range estimated from im_true's dtype
\* and values, or the exception raised on the way.
InferDynamicRange(im_true) ==
    IF im_true.dtype \notin DOMAIN dtype_range
    THEN [exc |-> "KeyError", msg |-> im_true.dtype,
          ops |-> <<"dtype_range">>, dynamic_range |-> 0]
    ELSE IF Len(im_true.data) = 0
    THEN [exc |-> "ValueError", msg |-> ZeroSizeMin,
          ops |-> <<"dtype_range", "min">>, dynamic_range |-> 0]
    ELSE
    LET dmin == dtype_range[im_true.dtype][1]
        dmax == dtype_range[im_true.dtype][2]
        true_min == Min(im_true)
        true_max == Max(im_true)
        ops == <<"dtype_range", "min", "max">>
    IN  IF FloatLess(F(dmax), true_max) \/ FloatLess(true_min, F(dmin))
        THEN [exc |-> "ValueError", msg |-> RangeMsg, ops |-> ops,
              dynamic_range |-> 0]
        ELSE IF true_min.k = "fin" /\ true_min.n >= 0
        THEN [exc |-> "", msg |-> "", ops |-> ops, dynamic_range |-> dmax]
        ELSE [exc |-> "", msg |-> "", ops |-> ops,
              dynamic_range |-> dmax - dmin]

\* Mutant of PsnrRatio: identical images are rejected instead of divided by.
PsnrRatio_guarded(h, im_true, im_test, dynamic_range, ops) ==
    LET f == _as_floats(h, im_true, im_test)
        err == mse(f.h, f.X, f.Y)
        all == ops \o <<"_as_floats">> \o err.ops
    IN  IF err.raised THEN [err EXCEPT !.ops = all]
        ELSE IF FloatEq(err.value, F(0))
        THEN Raise(err.h, all, "ValueError", "identical images")
        ELSE Return(err.h, all \o <<"divide", "log10">>,
                    TenLog10(FDiv(F(dynamic_range * dynamic_range), err.value)),
                    Some(dynamic_range))

\* Lines 127-130 of psnr, after ops: promotion, mse and the logarithm.
PsnrRatio(h, im_true, im_test, dynamic_range, ops) ==
    LET f == _as_floats(h, im_true, im_test)
        err == mse(f.h, f.X, f.Y)
        all == ops \o <<"_as_floats">> \o err.ops
    IN  IF err.raised THEN [err EXCEPT !.ops = all]
        ELSE Return(err.h, all \o <<"divide", "log10">>,
                    TenLog10(FDiv(F(dynamic_range * dynamic_range), err.value)),
                    Some(dynamic_range))

\* Mutant of psnr: the dynamic range is estimated before the inputs are
\* checked for compatibility.
psnr_range_first(h, im_true, im_test, dynamic_range) ==
    LET msg == _assert_compatible(h[im_true], h[im_test])
        inf == InferDynamicRange(h[im_true])
    IN  IF ~dynamic_range.given /\ inf.exc # ""
        THEN Raise(h, inf.ops, inf.exc, inf.msg)
        ELSE IF msg # ""
        THEN Raise(h, <<"_assert_compatible">>, "ValueError", msg)
        ELSE PsnrRatio(h, im_true, im_test,
                       IF dynamic_range.given THEN dynamic_range.v
                       ELSE inf.dynamic_range, <<"_assert_compatible">>)

\* psnr(im_true, im_test, dynamic_range=None); reads the table dtype_range.
psnr(h, im_true, im_test, dynamic_range) ==
    LET msg == _assert_compatible(h[im_true], h[im_test])
        inf == InferDynamicRange(h[im_true])
        ops == <<"_assert_compatible">>
    IN  IF msg # ""
        THEN Raise(h, ops, "ValueError", msg)
        ELSE IF dynamic_range.given
        THEN PsnrRatio(h, im_true, im_test, dynamic_range.v, ops)
        ELSE IF inf.exc # ""
        THEN Raise(h, ops \o inf.ops, inf.exc, inf.msg)
        ELSE PsnrRatio(h, im_true, im_test, inf.dynamic_range, ops \o inf.ops)

(***************************************************************************)
(* The inputs: two arrays the caller holds (objects 1 and 2 of the heap),  *)
(* the norm_type strings and the dynamic ranges it may pass.               *)
(***************************************************************************)
Dtypes == {"uint8", "int8", "float32", "float64", "longdouble"}

\* Per dtype: the ends of the integer ranges (their differences and squares
\* overflow 8 bits), floats below, inside and above (-1, 1), and a NaN.
ElemValues(dtype) ==
    CASE dtype = "uint8" -> {F(0), F(255)}
      [] dtype = "int8" -> {F(-128), F(127)}
      [] dtype = "float32" -> {F(-2), F(0)}
      [] dtype = "float64" -> {F(-1), F(2), NaN}
      [] OTHER -> {F(0)}

\* Vectors of 0..MaxLen elements and one-row matrices of 1..MaxLen elements.
Shapes == {<<n>> : n \in 0..MaxLen} \cup {<<1, n>> : n \in 1..MaxLen}

Size(shape) == IF Len(shape) = 1 THEN shape[1] ELSE shape[1] * shape[2]

ArraysOf(dtype, shape) ==
    {[dtype |-> dtype, shape |-> shape, data |-> d] :
        d \in [1..Size(shape) -> ElemValues(dtype)]}

Arrays == UNION {ArraysOf(t, s) : t \in Dtypes, s \in Shapes}

\* np.zeros(shape, dtype)
zeros(shape, dtype) ==
    [dtype |-> dtype, shape |-> shape, data |-> [i \in 1..Size(shape) |-> F(0)]]

Zeros == {zeros(s, t) : s \in Shapes, t \in Dtypes}

NormTypes ==
    {Omitted, Some(s_euclidean),
     Some(<<"E", "U", "C", "L", "I", "D", "E", "A", "N">>),
     Some(s_min_max), Some(<<"M", "I", "N", "-", "M", "A", "X">>),
     Some(<<"M", "e", "a", "n">>), Some(<<"b", "o", "g", "u", "s">>)}

DynamicRanges == {None, Some(0), Some(2)}

\* The Dtype Range Table (skimage.util.dtype.dtype_range).
DtypeRangeTable ==
    [uint8 |-> <<0, 255>>, int8 |-> <<-128, 127>>,
     float32 |-> <<-1, 1>>, float64 |-> <<-1, 1>>]

NoCall ==
    [fn |-> "none", im_true |-> 1, im_test |-> 2, norm_type |-> Omitted,
     dynamic_range_arg |-> None, ret |-> Return(<<>>, <<>>, NaN, None)]

\* The caller holds two arrays: any two of one dtype and shape, or any array
\* together with an array of zeros of any dtype and shape.
Init ==
    /\ heap \in {h \in [1..2 -> Arrays] :
                    \/ _assert_compatible(h[1], h[2]) = ""
                    \/ h[2] \in Zeros}
    /\ dtype_range = DtypeRangeTable
    /\ outcome = NoCall

\* What the caller sees after a call that ended with frame r: its own two
\* objects (the call's temporaries are gone) and the call's result.
AfterCall(fn, X, Y, norm_type, dr, r) ==
    /\ heap' = [i \in DOMAIN heap |-> r.h[i]]
    /\ outcome' = [fn |-> fn, im_true |-> X, im_test |-> Y,
                   norm_type |-> norm_type, dynamic_range_arg |-> dr,
                   ret |-> [r EXCEPT !.h = <<>>]]
    /\ UNCHANGED dtype_range

\* The pairs of arguments: (X, Y), (Y, X) and (X, X).
MseArgs == {<<1, 2>>, <<2, 1>>, <<1, 1>>}

CallMse ==
    \E a \in MseArgs :
        AfterCall("mse", a[1], a[2], Omitted, None, mse(heap, a[1], a[2]))

CallNrmse ==
    \E nt \in NormTypes :
        AfterCall("nrmse", 1, 2, nt, None, nrmse(heap, 1, 2, nt))

CallPsnr ==
    \E dr \in DynamicRanges :
        AfterCall("psnr", 1, 2, Omitted, dr, psnr(heap, 1, 2, dr))

Next == CallMse \/ CallNrmse \/ CallPsnr

Spec == Init /\ [][Next]_vars

(***************************************************************************)
(* The properties.  They are stated over the last call (outcome) and the   *)
(* caller's arrays, with the expected values computed from the arrays'     *)
(* elements by integer arithmetic.                                         *)
(***************************************************************************)
Called == outcome.fn # "none"

\* The arrays passed as the first (reference) and second (test) argument.
Ref == heap[outcome.im_true]

Test == heap[outcome.im_test]

Compatible(A, B) == A.dtype = B.dtype /\ A.shape = B.shape

NonEmpty(A) == Len(A.data) > 0

\* No element is a NaN.
AllFinite(A) == \A i \in DOMAIN A.data : A.data[i].k = "fin"

\* The error kinds, by the exception the code raises for each.
IncompatibleInputsError(r) ==
    r.raised /\ r.exc = "ValueError" /\ r.msg \in {DtypeMsg, ShapeMsg}

UnsupportedNormModeError(r) ==
    r.raised /\ r.exc = "ValueError" /\ r.msg = NormTypeMsg

OutOfRangeError(r) == r.raised /\ r.exc = "ValueError" /\ r.msg = RangeMsg

UnknownDtypeError(r) == r.raised /\ r.exc = "KeyError"

RECURSIVE SumSqDiff(_, _, _)
SumSqDiff(x, y, i) ==
    IF i = 0 THEN 0
    ELSE SumSqDiff(x, y, i - 1) + (x[i].n - y[i].n) * (x[i].n - y[i].n)

\* sum((X[i] - Y[i])^2) / size for non-empty arrays of integers.
ExactMse(X, Y) == Norm("fin", SumSqDiff(X.data, Y.data, Len(X.data)), Len(X.data))

\* C1: on input arrays whose dtypes or shapes differ, mse, nrmse and psnr
\* each fail with IncompatibleInputsError having run nothing but the
\* compatibility check, whatever norm_type and dynamic_range are and
\* whether or not the dtype is in the Dtype Range Table.
C1_IncompatibleFailsFirst ==
    (Called /\ ~Compatible(Ref, Test)) =>
        /\ IncompatibleInputsError(outcome.ret)
        /\ outcome.ret.ops = <<"_assert_compatible">>

\* psnr without a dynamic range on incompatible arrays whose dtype has no
\* table entry.
C1_Witness ==
    /\ outcome.fn = "psnr"
    /\ ~outcome.dynamic_range_arg.given
    /\ Ref.dtype \notin DOMAIN dtype_range
    /\ Ref.dtype = Test.dtype
    /\ Ref.shape # Test.shape
    /\ IncompatibleInputsError(outcome.ret)

\* C2: for compatible, non-empty arrays of numbers mse returns
\* sum((X[i] - Y[i])^2) / size computed on the mathematical values: for
\* uint8 and int8 the difference and the square do not wrap around.
C2_MseIsMeanSquaredDifference ==
    (outcome.fn = "mse" /\ Compatible(Ref, Test) /\ NonEmpty(Ref)
        /\ AllFinite(Ref) /\ AllFinite(Test)) =>
        /\ ~outcome.ret.raised
        /\ outcome.ret.value = ExactMse(Ref, Test)

\* uint8 arrays with an element pair 0, 255: the difference is negative and
\* its square is above 255.
C2_Witness ==
    /\ outcome.fn = "mse"
    /\ Ref.dtype = "uint8"
    /\ Compatible(Ref, Test)
    /\ \E i \in DOMAIN Ref.data : Ref.data[i].n - Test.data[i].n = -255
    /\ ~outcome.ret.raised
    /\ outcome.ret.value.n >= 65025

C3_Exchanged ==
    /\ outcome.fn = "mse"
    /\ outcome'.fn = "mse"
    /\ outcome'.im_true = outcome.im_test
    /\ outcome'.im_test = outcome.im_true
    /\ Compatible(Ref, Test)

C3_SameValue ==
    /\ ~outcome.ret.raised
    /\ ~outcome'.ret.raised
    /\ FloatEq(outcome.ret.value, outcome'.ret.value)

SameLetter(a, b) ==
    \/ a = b
    \/ \E j \in DOMAIN UpperCase : {a, b} = {UpperCase[j], LowerCase[j]}

EqualIgnoringCase(s, t) ==
    /\ Len(s) = Len(t)
    /\ \A i \in DOMAIN s : SameLetter(s[i], t[i])

\* The mode a norm_type argument stands for; leaving it out means euclidean.
ModeOf(arg) == IF arg.given THEN arg.v ELSE s_euclidean

Recognized(arg) ==
    \E m \in {s_euclidean, s_min_max, s_mean} : EqualIgnoringCase(ModeOf(arg), m)

C5_FailsIffUnrecognized ==
    (outcome.fn = "nrmse" /\ Compatible(Ref, Test)) =>
        (UnsupportedNormModeError(outcome.ret) <=> ~Recognized(outcome.norm_type))

C5_SameModeSameResult ==
    (outcome.fn = "nrmse" /\ outcome'.fn = "nrmse"
        /\ EqualIgnoringCase(ModeOf(outcome.norm_type), ModeOf(outcome'.norm_type)))
        => outcome'.ret = outcome.ret

\* C5: on compatible arrays nrmse fails with UnsupportedNormModeError iff
\* norm_type, lower-cased, is none of euclidean, min-max, mean; two calls
\* whose norm_types are equal after lower-casing give the same result, and
\* leaving norm_type out gives the result of "euclidean".
C5_NormTypeCaseInsensitive ==
    [](C5_FailsIffUnrecognized) /\ [][C5_SameModeSameResult]_vars

\* nrmse(R, T, "EUCLIDEAN") returned a number.
C5_Witness ==
    /\ outcome.fn = "nrmse"
    /\ outcome.norm_type = Some(<<"E", "U", "C", "L", "I", "D", "E", "A", "N">>)
    /\ ~outcome.ret.raised
    /\ outcome.ret.value.k = "sqrt"
    /\ outcome.ret.value.n > 0

RECURSIVE SumSq(_, _)
SumSq(x, i) == IF i = 0 THEN 0 ELSE SumSq(x, i - 1) + x[i].n * x[i].n

RECURSIVE SumOf(_, _)
SumOf(x, i) == IF i = 0 THEN 0 ELSE SumOf(x, i - 1) + x[i].n

Elements(A) == {A.data[i].n : i \in DOMAIN A.data}

Greatest(S) == CHOOSE v \in S : \A w \in S : w <= v

Least(S) == CHOOSE v \in S : \A w \in S : v <= w

\* The denominator the mode calls for, from the reference array alone.
ExpectedDenominator(arg, R) ==
    CASE EqualIgnoringCase(ModeOf(arg), s_euclidean) ->
            Sqrt(Norm("fin", SumSq(R.data, Len(R.data)), Len(R.data)))
      [] EqualIgnoringCase(ModeOf(arg), s_min_max) ->
            F(Greatest(Elements(R)) - Least(Elements(R)))
      [] OTHER ->
            Norm("fin", SumOf(R.data, Len(R.data)), Len(R.data))

\* Compatible, non-empty arrays of numbers and a recognized mode.
NrmseDefined ==
    /\ outcome.fn = "nrmse"
    /\ Compatible(Ref, Test)
    /\ NonEmpty(Ref)
    /\ AllFinite(Ref)
    /\ AllFinite(Test)
    /\ Recognized(outcome.norm_type)

dmin == dtype_range[Ref.dtype][1]

dmax == dtype_range[Ref.dtype][2]

\* Every element of the reference is a number within (dmin, dmax).
InRange(R) ==
    \A i \in DOMAIN R.data :
        R.data[i].k = "fin" /\ dmin <= R.data[i].n /\ R.data[i].n <= dmax

\* psnr on compatible arrays, the reference non-empty with a dtype of the
\* Dtype Range Table.
PsnrOnTableDtype ==
    /\ outcome.fn = "psnr"
    /\ Compatible(Ref, Test)
    /\ Ref.dtype \in DOMAIN dtype_range
    /\ NonEmpty(Ref)

ExpectedDynamicRange ==
    IF \A i \in DOMAIN Ref.data : Ref.data[i].n >= 0 THEN dmax ELSE dmax - dmin

\* 10 * log10(dr^2 / mse(R, T)) for arrays of numbers.
ExpectedPsnr(dr) == TenLog10(FDiv(F(dr * dr), ExactMse(Ref, Test)))

\* C7: psnr without a dynamic range, on a reference whose values lie within
\* its dtype's (dmin, dmax), uses dmax if min(R) >= 0 and dmax - dmin
\* otherwise, whatever the test array holds.
C7_InferredDynamicRange ==
    (PsnrOnTableDtype /\ ~outcome.dynamic_range_arg.given /\ InRange(Ref)) =>
        /\ ~outcome.ret.raised
        /\ outcome.ret.dynamic_range = Some(ExpectedDynamicRange)
        /\ AllFinite(Test) =>
              outcome.ret.value = ExpectedPsnr(ExpectedDynamicRange)

\* A float64 reference of negative values in range, a different test array:
\* the range used is dmax - dmin = 2.
C7_Witness ==
    /\ PsnrOnTableDtype
    /\ ~outcome.dynamic_range_arg.given
    /\ Ref.dtype = "float64"
    /\ InRange(Ref)
    /\ \E i \in DOMAIN Ref.data : Ref.data[i].n < 0
    /\ Ref # Test
    /\ outcome.ret.dynamic_range = Some(2)

\* max(R) > dmax or min(R) < dmin, with numpy's max and min: a NaN element
\* makes both NaN, and no comparison with NaN is true.
ExceedsRange(R) ==
    /\ AllFinite(R)
    /\ \E i \in DOMAIN R.data : R.data[i].n > dmax \/ R.data[i].n < dmin

NoLookup(ops) ==
    \A i \in DOMAIN ops : ops[i] \notin {"dtype_range", "min", "max"}

\* C8: on compatible arrays with a dtype of the table, psnr fails with
\* OutOfRangeError iff no dynamic range is given and max(R) > dmax or
\* min(R) < dmin for the reference R; with a dynamic range given psnr looks
\* nothing up, checks no range, fails with neither OutOfRangeError nor
\* UnknownDtypeError and uses the given value.
C8_OutOfRangeIff ==
    (outcome.fn = "psnr" /\ Compatible(Ref, Test)) =>
        /\ Ref.dtype \in DOMAIN dtype_range =>
              (OutOfRangeError(outcome.ret) <=>
                  (~outcome.dynamic_range_arg.given /\ ExceedsRange(Ref)))
        /\ outcome.dynamic_range_arg.given =>
              /\ ~outcome.ret.raised
              /\ NoLookup(outcome.ret.ops)
              /\ outcome.ret.dynamic_range = outcome.dynamic_range_arg

\* A reference below dmin only, no dynamic range given: OutOfRangeError.
C8_Witness ==
    /\ PsnrOnTableDtype
    /\ ~outcome.dynamic_range_arg.given
    /\ \E i \in DOMAIN Ref.data : Ref.data[i].n < dmin
    /\ \A i \in DOMAIN Ref.data : Ref.data[i].n <= dmax
    /\ OutOfRangeError(outcome.ret)

SameCall(a, b) ==
    /\ a.fn = b.fn
    /\ a.im_true = b.im_true
    /\ a.im_test = b.im_test
    /\ a.norm_type = b.norm_type
    /\ a.dynamic_range_arg = b.dynamic_range_arg

\* C9: no call, returning or raising, changes the caller's arrays (contents,
\* dtype, shape) or the Dtype Range Table, and a call repeated with the same
\* arguments gives the same result.
C9_InputsUnchanged ==
    [][/\ heap' = heap
       /\ dtype_range' = dtype_range
       /\ SameCall(outcome, outcome') => outcome'.ret = outcome.ret]_vars

\* psnr returned for two uint8 arrays, which _as_floats had to convert.
C9_Witness ==
    /\ outcome.fn = "psnr"
    /\ ~outcome.ret.raised
    /\ \E i \in DOMAIN outcome.ret.ops : outcome.ret.ops[i] = "_as_floats"
    /\ heap[1].dtype = "uint8"
    /\ heap[2].dtype = "uint8"
    /\ heap[1] # heap[2]

\* psnr of identical images that pass the range check (or need none).
PsnrOfIdentical ==
    /\ outcome.fn = "psnr"
    /\ Compatible(Ref, Test)
    /\ NonEmpty(Ref)
    /\ AllFinite(Ref)
    /\ AllFinite(Test)
    /\ ExactMse(Ref, Test).n = 0
    /\ \/ outcome.dynamic_range_arg.given
       \/ Ref.dtype \in DOMAIN dtype_range /\ InRange(Ref)

\* nrmse in min-max or mean mode on a reference whose denominator is zero.
NrmseZeroDenominator ==
    /\ NrmseDefined
    /\ \/ EqualIgnoringCase(ModeOf(outcome.norm_type), s_min_max)
       \/ EqualIgnoringCase(ModeOf(outcome.norm_type), s_mean)
    /\ ExpectedDenominator(outcome.norm_type, Ref).n = 0

\* C10: a zero denominator is no error: psnr of identical images and nrmse
\* (min-max, mean) on a reference with a zero denominator raise nothing and
\* return a non-finite value, +inf for psnr with a nonzero dynamic range.
C10_ZeroDenominatorNoError ==
    /\ PsnrOfIdentical =>
          /\ ~outcome.ret.raised
          /\ ~IsFinite(outcome.ret.value)
          /\ outcome.ret.dynamic_range.v # 0 => outcome.ret.value = Inf
    /\ NrmseZeroDenominator =>
          /\ ~outcome.ret.raised
          /\ ~IsFinite(outcome.ret.value)

\* psnr without a dynamic range on identical uint8 images: +inf.
C10_Witness ==
    /\ PsnrOfIdentical
    /\ ~outcome.dynamic_range_arg.given
    /\ Ref.dtype = "uint8"
    /\ outcome.ret.value = Inf

====
